------------------------------ MODULE Spec2Model ------------------------------
(***************************************************************************)
(* The UDP relay core of go-shadowsocks2 (src/udp.go): the three listener  *)
(* loops udpLocal, udpSocksLocal and udpRemote, the per-peer session       *)
(* tables (map + mutex, and natmap), the drain and return-path goroutines, *)
(* the buffer pool, and the framing done by timedCopy.                     *)
(*                                                                         *)
(* A mutex-protected critical section is one atomic action.  A goroutine   *)
(* is a program counter per session.  An unrecovered panic of any          *)
(* goroutine ends the process: every action is guarded by panic = NoPanic. *)
(***************************************************************************)
EXTENDS Integers, Sequences, FiniteSets, TLC

(***************************************************************************)
(* Bounds of the model.                                                    *)
(***************************************************************************)
\* number of distinct peer addresses (raddr.String()) seen by a listener
NumPeers == 2
\* number of sessions (forwarding sockets) the process can open in one run;
\* net.ListenPacket fails once they are used up
MaxSessions == 2
\* number of distinct 64 KiB buffers that exist at the same time
MaxBufs == 2
\* config.UDPTimeout, in clock ticks
Timeout == 1
\* scaled stand-in for udpBufSize (64 * 1024): the capacity of every buffer
BufSize == 40
\* the datagrams a listener receives are numbered 1, 2, ... up to MaxSeq;
\* every later one carries the number MaxSeq
MaxSeq == 3

(***************************************************************************)
(* Program constants.                                                      *)
(***************************************************************************)
\* make(chan []byte, 1)
ChanCap == 1
\* buf[3:n], append([]byte{0, 0, 0}, ...): the SOCKS5 UDP header RSV RSV FRAG
SocksHeaderLen == 3
\* socks.AtypIPv4, socks.AtypDomainName, socks.AtypIPv6
AtypIPv4 == 1
AtypDomainName == 3
AtypIPv6 == 4
\* net.IPv4len, net.IPv6len, and the two bytes of a port
IPv4len == 4
IPv6len == 16
PortLen == 2

Nil == 0
NoPanic == "none"
Peers == 1..NumPeers
Sids == 1..MaxSessions
Bufs == 1..MaxBufs

Min(a, b) == IF a < b THEN a ELSE b

(***************************************************************************)
(* The address codec (package socks).  A byte is a small natural number;   *)
(* a []byte is a sequence; a nil slice is the empty sequence (len 0).      *)
(***************************************************************************)
\* socks.SplitAddr: the leading target-address-prefix of b, or nil
SplitAddr(b) ==
    IF Len(b) < 1 THEN << >>
    ELSE LET addrLen ==
                 IF b[1] = AtypDomainName
                 THEN (IF Len(b) < 2 THEN -1 ELSE 1 + 1 + b[2] + PortLen)
                 ELSE IF b[1] = AtypIPv4 THEN 1 + IPv4len + PortLen
                 ELSE IF b[1] = AtypIPv6 THEN 1 + IPv6len + PortLen
                 ELSE -1
         IN  IF addrLen < 0 \/ Len(b) < addrLen THEN << >>
             ELSE SubSeq(b, 1, addrLen)

\* socks.ParseAddr applied to raddr.String(): a source address is a record
\* [atyp, host, port]; an IP literal is encoded as atyp host port, any other
\* host (an IPv6 literal with a zone) as a domain name with a length byte
ParseAddr(a) ==
    IF a.atyp = AtypDomainName
    THEN (IF Len(a.host) > 255 THEN << >>
          ELSE <<AtypDomainName, Len(a.host)>> \o a.host \o a.port)
    ELSE <<a.atyp>> \o a.host \o a.port

\* socks.Addr.String, as far as the model needs it: the address record a
\* prefix stands for
AddrOf(p) ==
    IF p[1] = AtypDomainName
    THEN [atyp |-> AtypDomainName,
          host |-> SubSeq(p, 3, 2 + p[2]),
          port |-> SubSeq(p, 3 + p[2], Len(p))]
    ELSE [atyp |-> p[1],
          host |-> SubSeq(p, 2, Len(p) - PortLen),
          port |-> SubSeq(p, Len(p) - PortLen + 1, Len(p))]

(***************************************************************************)
(* timedCopy's framing, on the buffer buf (always of length BufSize) after *)
(* src.ReadFrom(buf) returned n bytes from raddr.                          *)
(***************************************************************************)
remoteServer == "remoteServer"
relayClient == "relayClient"
socksClient == "socksClient"

\* the built-in copy(dst, src) where dst = buf[off:] and src aliases the
\* same array: min(len(dst), len(src)) elements are moved (memmove)
GoCopy(buf, off, src) ==
    LET cnt == Min(Len(buf) - off, Len(src))
    IN  [i \in 1..Len(buf) |->
            IF i > off /\ i <= off + cnt THEN src[i - off] ELSE buf[i]]

\* lines 303-314: the datagram handed to dst.WriteTo, or a run-time panic
\* when the slice expression buf[:len(srcAddr)+n] exceeds cap(buf)
timedCopyFrame(role, buf, n, raddr) ==
    IF role = remoteServer
    THEN LET srcAddr == ParseAddr(raddr)
             b1 == GoCopy(buf, Len(srcAddr), SubSeq(buf, 1, n))
             b2 == GoCopy(b1, 0, srcAddr)
         IN  IF Len(srcAddr) + n > Len(buf)
             THEN [panic |-> TRUE, out |-> << >>, buf |-> b2]
             ELSE [panic |-> FALSE,
                   out |-> SubSeq(b2, 1, Len(srcAddr) + n), buf |-> b2]
    ELSE IF role = relayClient
    THEN LET srcAddr == SplitAddr(SubSeq(buf, 1, n))
         IN  [panic |-> FALSE,
              out |-> SubSeq(buf, Len(srcAddr) + 1, n), buf |-> buf]
    ELSE [panic |-> FALSE,
          out |-> <<0, 0, 0>> \o SubSeq(buf, 1, n), buf |-> buf]


(***************************************************************************)
(* The state of one relay process.                                         *)
(***************************************************************************)
VARIABLES
    relay,      \* which entry point runs: "local", "remote" or "socks"
    panic,      \* NoPanic, or the run-time panic that ended the process
    m,          \* the session table: m (map[string]chan []byte) / natmap.m
    nextSid,    \* the next forwarding socket net.ListenPacket hands out
    speer,      \* per session: the peer key k it was created for, or Nil
    chq,        \* per session: the datagrams buffered in its inbox ch
    chClosed,   \* per session: how often close(ch) ran on its inbox
    pcClosed,   \* per session: how often pc.Close() ran on its socket
    dpc,        \* per session: where its drain goroutine stands
    dcur,       \* per session: the slice the drain goroutine holds
    rpc,        \* per session: where its return-path goroutine stands
    rerr,       \* per session: the error timedCopy returned, until cleanup
    rdel,       \* per session: the socket natmap.Del returned to its reaper
    remaining,  \* per session: ticks left until the socket's read deadline
    idleIn,     \* per session: ticks since the last inbound return datagram
    idleAny,    \* per session: ticks since the last datagram in any direction
    lpc,        \* where the listener loop stands
    lbuf,       \* the listener's buf (a buffer of the pool), or Nil
    lk,         \* the listener's raddr / k
    lch,        \* the listener's ch (udpLocal, udpRemote) / pc (udpSocksLocal)
    ldata,      \* the datagram the listener holds: buf[:n]
    lnew,       \* whether this iteration of the listener created its session
    bufPool,    \* how many times each buffer is in bufPool
    ev,         \* what the last step did that can be observed, or NoEvent
    seq,        \* how many datagrams the listener has received, up to MaxSeq
    fpc,        \* one reply through both timedCopy loops: where it stands
    fn,         \* the length n the server's src.ReadFrom returned
    fbuf,       \* the server's buf as ReadFrom left it
    faddr,      \* raddr: the source address of the reply
    fout,       \* the datagram the server's loop passed to dst.WriteTo
    fuser       \* the datagram the client's loop passed to dst.WriteTo

relayVars == <<relay, panic, m, nextSid, speer, chq, chClosed, pcClosed, dpc,
               dcur, rpc, rerr, rdel, remaining, idleIn, idleAny, lpc, lbuf,
               lk, lch, ldata, lnew, bufPool, ev, seq>>
frameVars == <<fpc, fn, fbuf, faddr, fout, fuser>>
vars == <<relayVars, frameVars>>

Queued == relay \in {"local", "remote"}

\* relays whose return-path loops all run in role remoteServer
RoleOfServerToClient(r) == remoteServer

\* the role of the return-path loop of each relay: udpLocal passes false
\* ("client -> user: strip"), udpRemote passes true ("server -> client: add"),
\* udpSocksLocal passes socksClient
RoleOf(r) ==
    IF r = "local" THEN relayClient
    ELSE IF r = "remote" THEN remoteServer
    ELSE socksClient

(***************************************************************************)
(* The datagrams of the environment.                                       *)
(***************************************************************************)
\* the fixed target of udpLocal, and the host a reply comes from
Tgt == [atyp |-> AtypIPv4, host |-> <<10, 0, 0, 1>>, port |-> <<0, 53>>]
Src4 == [atyp |-> AtypIPv4, host |-> <<203, 0, 113, 5>>, port |-> <<35, 40>>]
\* a byte that is no address type
BadAtyp == 9

\* the number of the next datagram the listener receives
NextSeq == Min(seq + 1, MaxSeq)

\* what c.ReadFrom can deliver to the listener of relay r as datagram
\* number p: the payload is the number
ListenData(r, p) ==
    IF r = "local" THEN {<<p>>}
    ELSE IF r = "remote" THEN {ParseAddr(Tgt) \o <<p>>, <<BadAtyp, p>>}
    ELSE {<<0, 0, 0>> \o ParseAddr(Tgt) \o <<p>>, <<0, 0>>}

\* the payload of a reply that arrives on the forwarding socket of session
\* s: the replies to different sockets are different datagrams
ReplyPayload(s) == <<s>>

\* what src.ReadFrom can deliver to the return-path loop of session s of
\* relay r
ReturnData(r, s) ==
    IF r = "remote" THEN {ReplyPayload(s)}
    ELSE {ParseAddr(Src4) \o ReplyPayload(s), <<BadAtyp>> \o ReplyPayload(s)}

\* a buffer of BufSize bytes that starts with d
Pad(d) == [i \in 1..BufSize |-> IF i <= Len(d) THEN d[i] ELSE 0]

\* a slice of a pooled buffer: the buffer and the bytes buf[:n] in it
NoItem == [buf |-> Nil, data |-> << >>]

NoEvent == [op |-> "none", peer |-> Nil, data |-> << >>]
Event(op, k, d) == [op |-> op, peer |-> k, data |-> d]

(***************************************************************************)
(* bufPool.                                                                *)
(***************************************************************************)
\* the buffers some goroutine still refers to
Referenced ==
    (IF lbuf # Nil THEN {lbuf} ELSE {})
    \cup UNION {{chq[s][i].buf : i \in 1..Len(chq[s])} : s \in Sids}
    \cup ({dcur[s].buf : s \in Sids} \ {Nil})

\* bufPool.Get(): a pooled buffer, or a new one from New (the model names a
\* new buffer by the least identity nothing refers to)
GetCandidates ==
    LET pooled == {b \in Bufs : bufPool[b] > 0}
        fresh == Bufs \ (pooled \cup Referenced)
    IN  pooled \cup (IF fresh = {} THEN {}
                     ELSE {CHOOSE b \in fresh : \A c \in fresh : b <= c})

PoolAfterGet(b) ==
    IF bufPool[b] > 0 THEN [bufPool EXCEPT ![b] = @ - 1] ELSE bufPool

\* bufPool.Put(b)
PoolAfterPut(b) == [bufPool EXCEPT ![b] = Min(@ + 1, 2)]

(***************************************************************************)
(* Initial state: the listening socket is open, the table is empty.        *)
(***************************************************************************)
FrameIdle ==
    /\ fpc = "off" /\ fn = 0 /\ fbuf = << >> /\ faddr = Src4
    /\ fout = << >> /\ fuser = << >>

RelayInit(r) ==
    /\ relay = r
    /\ panic = NoPanic
    /\ m = [k \in Peers |-> Nil]
    /\ nextSid = 1
    /\ speer = [s \in Sids |-> Nil]
    /\ chq = [s \in Sids |-> << >>]
    /\ chClosed = [s \in Sids |-> 0]
    /\ pcClosed = [s \in Sids |-> 0]
    /\ dpc = [s \in Sids |-> "none"]
    /\ dcur = [s \in Sids |-> NoItem]
    /\ rpc = [s \in Sids |-> "none"]
    /\ rerr = [s \in Sids |-> "none"]
    /\ rdel = [s \in Sids |-> Nil]
    /\ remaining = [s \in Sids |-> 0]
    /\ idleIn = [s \in Sids |-> 0]
    /\ idleAny = [s \in Sids |-> 0]
    /\ lpc = IF relay = "socks" THEN "read" ELSE "get"
    /\ lbuf = Nil /\ lk = Nil /\ lch = Nil /\ ldata = << >> /\ lnew = FALSE
    /\ bufPool = [b \in Bufs |-> 0]
    /\ ev = NoEvent

\* the relay at any time of its run: the numbers of the datagrams have
\* reached MaxSeq
Init ==
    /\ \E r \in {"local", "remote", "socks"} : RelayInit(r)
    /\ seq = MaxSeq
    /\ FrameIdle

sessVars == <<speer, chq, chClosed, pcClosed, dpc, dcur, rpc, rerr, rdel,
              remaining, idleIn, idleAny>>

(***************************************************************************)
(* The listener loop of udpLocal (lines 50-107) and udpRemote (169-239).   *)
(***************************************************************************)
\* a listener that never finds the peer in the table
LookupMissAlways(k) == TRUE

\* line 62 / 180: if ch == nil
LookupMiss(k) == m[k] = Nil

\* lines 69-97 / 186-229: the new session s for peer k: its inbox, its table
\* entry, and its two goroutines (the return-path loop starts in timedCopy,
\* which arms the read deadline before its first read)
SessionCreated(s, k) ==
    /\ m' = [m EXCEPT ![k] = s]
    /\ nextSid' = s + 1
    /\ speer' = [speer EXCEPT ![s] = k]
    /\ dpc' = [dpc EXCEPT ![s] = "recv"]
    /\ rpc' = [rpc EXCEPT ![s] = "read"]
    /\ remaining' = [remaining EXCEPT ![s] = Timeout]
    /\ idleIn' = [idleIn EXCEPT ![s] = 0]
    /\ idleAny' = [idleAny EXCEPT ![s] = 0]
    /\ ev' = Event("create", k, << >>)
    /\ UNCHANGED <<chq, chClosed, pcClosed, dcur, rerr, rdel>>

\* a listener that makes the inbox and inserts it before it opens the socket
CreateFailedLeavesEntry(k) ==
    /\ ev' = Event("createfail", k, << >>)
    /\ IF nextSid <= MaxSessions
       THEN /\ m' = [m EXCEPT ![k] = nextSid]
            /\ speer' = [speer EXCEPT ![nextSid] = k]
            /\ nextSid' = nextSid + 1
       ELSE UNCHANGED <<m, speer, nextSid>>
    /\ UNCHANGED <<chq, chClosed, pcClosed, dpc, dcur, rpc, rerr, rdel,
                   remaining, idleIn, idleAny>>

\* the failure of net.ListenPacket("udp", "") for peer k (lines 64-67 /
\* 182-185: goto Unlock): nothing is inserted, nothing is spawned
CreateFailed(k) ==
    /\ ev' = Event("createfail", k, << >>)
    /\ UNCHANGED <<m, nextSid, sessVars>>

\* lines 51-57 / 170-175: c.ReadFrom fails; the loop continues and the
\* buffer it took from the pool is dropped without being put back
ListenerReadErr ==
    /\ panic = NoPanic /\ Queued /\ lpc = "get"
    /\ \E b \in GetCandidates :
          /\ bufPool' = PoolAfterGet(b)
          /\ ev' = Event("readerr", Nil, <<b>>)
    /\ UNCHANGED <<relay, panic, m, nextSid, sessVars, lpc, lbuf, lk, lch,
                   ldata>>
    /\ UNCHANGED <<seq, lnew, frameVars>>

\* lines 51-100 / 170-232: buf := bufPool.Get(); a datagram d arrives from
\* peer k (udpLocal reads it behind the copy of tgt); then the critical
\* section under lock: look k up and, on a miss, create its session
ListenerAccept ==
    /\ panic = NoPanic /\ Queued /\ lpc = "get"
    /\ \E b \in GetCandidates, k \in Peers, d \in ListenData(relay, NextSeq) :
          /\ lbuf' = b
          /\ bufPool' = PoolAfterGet(b)
          /\ lk' = k
          /\ ldata' = IF relay = "local" THEN ParseAddr(Tgt) \o d ELSE d
          /\ IF LookupMiss(k)
             THEN \/ /\ nextSid <= MaxSessions
                     /\ SessionCreated(nextSid, k)
                     /\ lch' = nextSid
                     /\ lnew' = TRUE
                  \/ /\ CreateFailed(k)
                     /\ lch' = m[k]
                     /\ lnew' = FALSE
             ELSE /\ lch' = m[k]
                  /\ lnew' = FALSE
                  /\ ev' = NoEvent
                  /\ UNCHANGED <<m, nextSid, sessVars>>
    /\ lpc' = "send"
    /\ seq' = NextSeq
    /\ UNCHANGED <<relay, panic>>
    /\ UNCHANGED frameVars

\* a listener that puts the buffer back although the send succeeded
PoolAfterSendPut(b) == PoolAfterPut(b)

\* line 103 / 235: after a successful send the buffer belongs to the drain
\* loop; the listener does not put it back
PoolAfterSend(b) == bufPool

\* an inbox that always has room
ChanSendAlways(s) == TRUE

\* the select of lines 102-106 / 234-238 finds room in the inbox of s
ChanSendReady(s) == Len(chq[s]) < ChanCap

\* lines 102-106 / 234-238: select { case ch <- buf[:n]: default: Put(buf) }.
\* A nil ch is never ready; a send on a closed channel panics.
ListenerSend ==
    /\ panic = NoPanic /\ Queued /\ lpc = "send"
    /\ IF lch = Nil
       THEN /\ bufPool' = PoolAfterPut(lbuf)
            /\ ev' = Event("drop-nil", lk, << >>)
            /\ UNCHANGED <<chq, panic>>
       ELSE IF chClosed[lch] > 0
       THEN /\ panic' = "send on closed channel"
            /\ ev' = NoEvent
            /\ UNCHANGED <<chq, bufPool>>
       ELSE IF ChanSendReady(lch)
       THEN /\ chq' = [chq EXCEPT ![lch] = Append(@, [buf |-> lbuf, data |-> ldata])]
            /\ ev' = Event("enqueue", lk, << >>)
            /\ bufPool' = PoolAfterSend(lbuf)
            /\ UNCHANGED panic
       ELSE /\ bufPool' = PoolAfterPut(lbuf)
            /\ ev' = Event("drop-full", lk, << >>)
            /\ UNCHANGED <<chq, panic>>
    /\ lpc' = IF panic' = NoPanic THEN "get" ELSE lpc
    /\ lbuf' = IF panic' = NoPanic THEN Nil ELSE lbuf
    /\ lk' = IF panic' = NoPanic THEN Nil ELSE lk
    /\ lch' = IF panic' = NoPanic THEN Nil ELSE lch
    /\ ldata' = IF panic' = NoPanic THEN << >> ELSE ldata
    /\ lnew' = IF panic' = NoPanic THEN FALSE ELSE lnew
    /\ UNCHANGED <<relay, m, nextSid, speer, chClosed, pcClosed, dpc, dcur, rpc,
                   rerr, rdel, remaining, idleIn, idleAny>>
    /\ UNCHANGED <<seq, frameVars>>

(***************************************************************************)
(* The drain goroutine of a session (lines 72-80 / 189-212).               *)
(***************************************************************************)
\* a receive that leaves the datagram in the inbox
DrainRestKeeps(q) == q

\* what a receive from the inbox leaves in it
DrainRest(q) == Tail(q)

\* for buf := range ch: the next buffered datagram, or the end of the loop
\* once ch is closed and empty
DrainRecv(s) ==
    /\ panic = NoPanic /\ dpc[s] = "recv"
    /\ IF chq[s] # << >>
       THEN /\ dcur' = [dcur EXCEPT ![s] = Head(chq[s])]
            /\ chq' = [chq EXCEPT ![s] = DrainRest(@)]
            /\ dpc' = [dpc EXCEPT ![s] = "write"]
       ELSE /\ chClosed[s] > 0
            /\ dpc' = [dpc EXCEPT ![s] = "done"]
            /\ UNCHANGED <<dcur, chq>>
    /\ ev' = NoEvent
    /\ UNCHANGED <<relay, panic, m, nextSid, speer, chClosed, pcClosed, rpc,
                   rerr, rdel, remaining, idleIn, idleAny, lpc, lbuf, lk, lch,
                   ldata, bufPool>>
    /\ UNCHANGED <<seq, lnew, frameVars>>

\* a drain loop that writes whatever it is given
DrainOutcomeForward(r, d, resolved) == "forward"

\* what the drain loop of relay r does with datagram d: udpLocal forwards
\* every datagram (lines 74-75); udpRemote forwards it unless SplitAddr or
\* ResolveUDPAddr fails (lines 194-203: goto End)
DrainOutcome(r, d, resolved) ==
    IF r = "local" THEN "forward"
    ELSE IF SplitAddr(d) = << >> THEN "discard-split"
    ELSE IF ~resolved THEN "discard-resolve"
    ELSE "forward"

\* a drain loop that extends the deadline before looking at the datagram
DrainArmsAlways(outcome) == TRUE

\* whether the drain loop extends the read deadline for a datagram with this
\* outcome: pc.SetReadDeadline at line 74 / 204
DrainArms(outcome) == outcome = "forward"

\* the bytes passed to pc.WriteTo: udpLocal writes buf whole (line 75),
\* udpRemote writes buf[len(tgtAddr):] (line 205)
DrainPayload(r, d) ==
    IF r = "local" THEN d ELSE SubSeq(d, Len(SplitAddr(d)) + 1, Len(d))

\* lines 74-78 / 194-210: one datagram through the loop body, ending with
\* bufPool.Put(buf[:cap(buf)])
DrainWrite(s) ==
    /\ panic = NoPanic /\ dpc[s] = "write"
    /\ \E resolved \in BOOLEAN, wok \in BOOLEAN :
          LET d == dcur[s].data
              outcome == DrainOutcome(relay, d, resolved)
              armed == DrainArms(outcome) /\ rpc[s] = "read"
              written == outcome = "forward" /\ wok /\ pcClosed[s] = 0
          IN  /\ (relay = "local" => resolved)
              /\ (outcome # "forward" => wok)
              /\ (pcClosed[s] > 0 => wok)
              /\ remaining' = IF armed THEN [remaining EXCEPT ![s] = Timeout]
                              ELSE remaining
              /\ idleAny' = IF outcome = "forward" /\ rpc[s] = "read"
                            THEN [idleAny EXCEPT ![s] = 0] ELSE idleAny
              /\ ev' = IF written
                       THEN Event("forward", speer[s], DrainPayload(relay, d))
                       ELSE IF outcome = "forward"
                       THEN Event("forward-fail", speer[s], d)
                       ELSE Event(outcome, speer[s], d)
    /\ bufPool' = PoolAfterPut(dcur[s].buf)
    /\ dcur' = [dcur EXCEPT ![s] = NoItem]
    /\ dpc' = [dpc EXCEPT ![s] = "recv"]
    /\ UNCHANGED <<relay, panic, m, nextSid, speer, chq, chClosed, pcClosed,
                   rpc, rerr, rdel, idleIn, lpc, lbuf, lk, lch, ldata>>
    /\ UNCHANGED <<seq, lnew, frameVars>>

(***************************************************************************)
(* timedCopy (lines 293-320), run by the return-path goroutine of session  *)
(* s.  rpc[s] = "read" is the loop blocked in src.ReadFrom with the        *)
(* deadline armed at line 297.                                             *)
(***************************************************************************)
\* where the goroutine goes when timedCopy returns: udpLocal and udpRemote
\* close the socket first (line 90 / 222), natmap.Add calls Del (line 286)
AfterCopy == IF Queued THEN "close" ELSE "del"

\* timedCopy returned err for session s
CopyReturns(s, err) ==
    /\ rpc' = [rpc EXCEPT ![s] = AfterCopy]
    /\ rerr' = [rerr EXCEPT ![s] = err]
    /\ ev' = Event(err, speer[s], << >>)
    /\ remaining' = [remaining EXCEPT ![s] = 0]
    /\ idleIn' = [idleIn EXCEPT ![s] = 0]
    /\ idleAny' = [idleAny EXCEPT ![s] = 0]

\* lines 298-314 for the reply d read from Src4 into timedCopy's buf
ReplyFrame(r, d) == timedCopyFrame(RoleOf(r), Pad(d), Len(d), Src4)

\* a return-path loop that writes to the address the listener read last
ReplyTargetShared(s) == IF lk # Nil THEN lk ELSE speer[s]

\* the target of dst.WriteTo in the loop of session s: the raddr of the
\* listener iteration that created the session (line 83 / 215; peer at
\* line 285)
ReplyTarget(s) == speer[s]

\* lines 298-318: a reply d arrives on the forwarding socket, is framed for
\* the role and written to the peer through the listening socket; a failed
\* write ends the loop, a successful one re-arms the deadline (line 297)
timedCopyRecv(s) ==
    /\ panic = NoPanic /\ rpc[s] = "read"
    /\ \E d \in ReturnData(relay, s), wok \in BOOLEAN :
          LET fr == ReplyFrame(relay, d)
          IN  IF fr.panic
              THEN /\ panic' = "slice bounds out of range"
                   /\ ev' = NoEvent
                   /\ UNCHANGED <<rpc, rerr, remaining, idleIn, idleAny>>
              ELSE /\ UNCHANGED panic
                   /\ IF wok
                      THEN /\ ev' = Event("reply", ReplyTarget(s), fr.out)
                           /\ remaining' = [remaining EXCEPT ![s] = Timeout]
                           /\ idleIn' = [idleIn EXCEPT ![s] = 0]
                           /\ idleAny' = [idleAny EXCEPT ![s] = 0]
                           /\ UNCHANGED <<rpc, rerr>>
                      ELSE CopyReturns(s, "write-error")
    /\ UNCHANGED <<relay, m, nextSid, speer, chq, chClosed, pcClosed, dpc, dcur,
                   rdel, lpc, lbuf, lk, lch, ldata, bufPool>>
    /\ UNCHANGED <<seq, lnew, frameVars>>

\* lines 298-301: src.ReadFrom fails with an error that is no timeout
timedCopyReadErr(s) ==
    /\ panic = NoPanic /\ rpc[s] = "read"
    /\ CopyReturns(s, "read-error")
    /\ UNCHANGED <<relay, panic, m, nextSid, speer, chq, chClosed, pcClosed,
                   dpc, dcur, rdel, lpc, lbuf, lk, lch, ldata, bufPool>>
    /\ UNCHANGED <<seq, lnew, frameVars>>

\* lines 297-301: the read deadline passes: ReadFrom fails with a timeout
timedCopyTimeout(s) ==
    /\ panic = NoPanic /\ rpc[s] = "read" /\ remaining[s] = 0
    /\ CopyReturns(s, "timeout")
    /\ UNCHANGED <<relay, panic, m, nextSid, speer, chq, chClosed, pcClosed,
                   dpc, dcur, rdel, lpc, lbuf, lk, lch, ldata, bufPool>>
    /\ UNCHANGED <<seq, lnew, frameVars>>

\* the clock: a tick passes for every pending read; a read whose deadline
\* has passed returns before the next tick
Tick ==
    /\ panic = NoPanic
    /\ \E s \in Sids : rpc[s] = "read"
    /\ \A s \in Sids : rpc[s] = "read" => remaining[s] > 0
    /\ remaining' = [s \in Sids |->
                        IF rpc[s] = "read" THEN remaining[s] - 1 ELSE remaining[s]]
    /\ idleIn' = [s \in Sids |->
                     IF rpc[s] = "read" THEN Min(idleIn[s] + 1, Timeout + 1)
                     ELSE idleIn[s]]
    /\ idleAny' = [s \in Sids |->
                      IF rpc[s] = "read" THEN Min(idleAny[s] + 1, Timeout + 1)
                      ELSE idleAny[s]]
    /\ ev' = NoEvent
    /\ UNCHANGED <<relay, panic, m, nextSid, speer, chq, chClosed, pcClosed,
                   dpc, dcur, rpc, rerr, rdel, lpc, lbuf, lk, lch, ldata,
                   bufPool>>
    /\ UNCHANGED <<seq, lnew, frameVars>>

(***************************************************************************)
(* Teardown by the return-path goroutine of udpLocal / udpRemote.          *)
(***************************************************************************)
\* the event of a removal from the table, by the error that ended timedCopy
RemoveEvent(err) ==
    IF err = "timeout" THEN "remove-timeout" ELSE "remove-error"

\* line 90 / 222: pc.Close()
ReaperClose(s) ==
    /\ panic = NoPanic /\ Queued /\ rpc[s] = "close"
    /\ pcClosed' = [pcClosed EXCEPT ![s] = Min(@ + 1, 2)]
    /\ rpc' = [rpc EXCEPT ![s] = "lock"]
    /\ UNCHANGED <<relay, panic, m, nextSid, speer, chq, chClosed, dpc, dcur,
                   rerr, rdel, remaining, idleIn, idleAny, lpc, lbuf, lk, lch,
                   ldata, bufPool>>
    /\ ev' = NoEvent
    /\ UNCHANGED <<seq, lnew, frameVars>>

\* lines 91-96 / 223-228, under lock: close the inbox found in the table
\* under k (closing a closed channel panics), then delete(m, k)
ReaperCleanup(s) ==
    /\ panic = NoPanic /\ Queued /\ rpc[s] = "lock"
    /\ LET k == speer[s]
           ch == m[k]
       IN  IF ch # Nil /\ chClosed[ch] > 0
           THEN /\ panic' = "close of closed channel"
                /\ ev' = NoEvent
                /\ UNCHANGED <<m, chClosed, rpc, rerr>>
           ELSE /\ chClosed' = IF ch # Nil THEN [chClosed EXCEPT ![ch] = @ + 1]
                               ELSE chClosed
                /\ m' = [m EXCEPT ![k] = Nil]
                /\ rpc' = [rpc EXCEPT ![s] = "done"]
                /\ rerr' = [rerr EXCEPT ![s] = "none"]
                /\ ev' = Event(RemoveEvent(rerr[s]), k, << >>)
                /\ UNCHANGED panic
    /\ UNCHANGED <<relay, nextSid, speer, chq, pcClosed, dpc, dcur, rdel,
                   remaining, idleIn, idleAny, lpc, lbuf, lk, lch, ldata,
                   bufPool>>
    /\ UNCHANGED <<seq, lnew, frameVars>>

(***************************************************************************)
(* natmap (lines 243-290): the table of udpSocksLocal; every method runs   *)
(* under the RWMutex and is one atomic step.                               *)
(***************************************************************************)
\* lines 256-260
natmapGet(nm, key) == nm[key]

\* lines 262-267
natmapSet(nm, key, pc) == [nm EXCEPT ![key] = pc]

\* a Del that hands the socket out but leaves the entry in the table
natmapDelKeeps(nm, key) == [m |-> nm, pc |-> nm[key]]

\* lines 269-279: the table without key, and the socket it held (or nil)
natmapDel(nm, key) ==
    IF nm[key] # Nil
    THEN [m |-> [nm EXCEPT ![key] = Nil], pc |-> nm[key]]
    ELSE [m |-> nm, pc |-> Nil]

(***************************************************************************)
(* The listener loop of udpSocksLocal (lines 128-152).                     *)
(***************************************************************************)
\* lines 129-133: c.ReadFrom fails; the loop continues
SocksReadErr ==
    /\ panic = NoPanic /\ relay = "socks" /\ lpc = "read"
    /\ ev' = Event("readerr", Nil, << >>)
    /\ UNCHANGED <<relay, panic, m, nextSid, sessVars, lpc, lbuf, lk, lch,
                   ldata, bufPool>>
    /\ UNCHANGED <<seq, lnew, frameVars>>

\* lines 129-136: a datagram d arrives from peer k; pc := nm.Get(k)
SocksAccept ==
    /\ panic = NoPanic /\ relay = "socks" /\ lpc = "read"
    /\ \E k \in Peers, d \in ListenData(relay, NextSeq) :
          /\ lk' = k /\ ldata' = d
          /\ lch' = natmapGet(m, k)
    /\ lpc' = IF lch' = Nil THEN "create" ELSE "write"
    /\ seq' = NextSeq
    /\ ev' = NoEvent
    /\ UNCHANGED <<relay, panic, m, nextSid, sessVars, lbuf, lnew, bufPool>>
    /\ UNCHANGED frameVars

\* lines 137-145: net.ListenPacket, then nm.Add (lines 281-290): Set and the
\* goroutine that runs timedCopy and cleans up
SocksCreate ==
    /\ panic = NoPanic /\ relay = "socks" /\ lpc = "create"
    /\ \/ /\ ev' = Event("createfail", lk, << >>)
          /\ lpc' = "read" /\ lk' = Nil /\ ldata' = << >>
          /\ UNCHANGED <<m, nextSid, sessVars, lch>>
       \/ /\ nextSid <= MaxSessions
          /\ m' = natmapSet(m, lk, nextSid)
          /\ speer' = [speer EXCEPT ![nextSid] = lk]
          /\ rpc' = [rpc EXCEPT ![nextSid] = "read"]
          /\ remaining' = [remaining EXCEPT ![nextSid] = Timeout]
          /\ idleIn' = [idleIn EXCEPT ![nextSid] = 0]
          /\ idleAny' = [idleAny EXCEPT ![nextSid] = 0]
          /\ lch' = nextSid
          /\ nextSid' = nextSid + 1
          /\ ev' = Event("create", lk, << >>)
          /\ lpc' = "write"
          /\ UNCHANGED <<chq, chClosed, pcClosed, dpc, dcur, rerr, rdel, lk, ldata>>
    /\ UNCHANGED <<relay, panic, lbuf, bufPool>>
    /\ UNCHANGED <<seq, lnew, frameVars>>

\* lines 147-151: pc.WriteTo(buf[3:n], srvAddr); the slice expression panics
\* when n < 3; a write on a closed socket fails
SocksWrite ==
    /\ panic = NoPanic /\ relay = "socks" /\ lpc = "write"
    /\ IF Len(ldata) < SocksHeaderLen
       THEN /\ panic' = "slice bounds out of range"
            /\ ev' = NoEvent
            /\ UNCHANGED <<lpc, lk, lch, ldata>>
       ELSE /\ \E wok \in BOOLEAN :
                  /\ (pcClosed[lch] > 0 => ~wok)
                  /\ ev' = IF wok
                           THEN Event("forward", lk,
                                      SubSeq(ldata, SocksHeaderLen + 1, Len(ldata)))
                           ELSE Event("forward-fail", lk, ldata)
            /\ lpc' = "read" /\ lk' = Nil /\ lch' = Nil /\ ldata' = << >>
            /\ UNCHANGED panic
    /\ UNCHANGED <<relay, m, nextSid, sessVars, lbuf, bufPool>>
    /\ UNCHANGED <<seq, lnew, frameVars>>

(***************************************************************************)
(* Teardown by the goroutine of natmap.Add (lines 286-288).                *)
(***************************************************************************)
\* line 286: pc := m.Del(peer.String())
NatReaperDel(s) ==
    /\ panic = NoPanic /\ relay = "socks" /\ rpc[s] = "del"
    /\ LET r == natmapDel(m, speer[s])
       IN  /\ m' = r.m
           /\ rdel' = [rdel EXCEPT ![s] = r.pc]
           /\ rpc' = [rpc EXCEPT ![s] = IF r.pc # Nil THEN "close" ELSE "done"]
           /\ rerr' = [rerr EXCEPT ![s] = "none"]
           /\ ev' = Event(RemoveEvent(rerr[s]), speer[s], << >>)
    /\ UNCHANGED <<relay, panic, nextSid, speer, chq, chClosed, pcClosed, dpc,
                   dcur, remaining, idleIn, idleAny, lpc, lbuf, lk, lch,
                   ldata, bufPool>>
    /\ UNCHANGED <<seq, lnew, frameVars>>

\* line 287: pc.Close() on the socket Del returned
NatReaperClose(s) ==
    /\ panic = NoPanic /\ relay = "socks" /\ rpc[s] = "close"
    /\ pcClosed' = [pcClosed EXCEPT ![rdel[s]] = Min(@ + 1, 2)]
    /\ rpc' = [rpc EXCEPT ![s] = "done"]
    /\ UNCHANGED <<relay, panic, m, nextSid, speer, chq, chClosed, dpc, dcur,
                   rerr, rdel, remaining, idleIn, idleAny, lpc, lbuf, lk, lch,
                   ldata, bufPool>>
    /\ ev' = NoEvent
    /\ UNCHANGED <<seq, lnew, frameVars>>

(***************************************************************************)
(* The relay process.                                                      *)
(***************************************************************************)
Listener ==
    \/ ListenerReadErr
    \/ ListenerAccept
    \/ ListenerSend
    \/ SocksReadErr
    \/ SocksAccept
    \/ SocksCreate
    \/ SocksWrite

Drain(s) == DrainRecv(s) \/ DrainWrite(s)

ReturnPath(s) ==
    \/ timedCopyRecv(s)
    \/ timedCopyReadErr(s)
    \/ timedCopyTimeout(s)
    \/ ReaperClose(s)
    \/ ReaperCleanup(s)
    \/ NatReaperDel(s)
    \/ NatReaperClose(s)

Next ==
    \/ Listener
    \/ \E s \in Sids : Drain(s)
    \/ \E s \in Sids : ReturnPath(s)
    \/ Tick

Spec == Init /\ [][Next]_vars

\* the Go scheduler runs every goroutine that can take a step: the teardown
\* steps of a return-path goroutine (lines 90-96 / 222-228) and the steps of
\* a drain loop (lines 73-79 / 193-211) do not wait for anything but the
\* mutex and the inbox
Fairness ==
    \A s \in Sids :
        /\ WF_vars(ReaperClose(s))
        /\ WF_vars(ReaperCleanup(s))
        /\ WF_vars(DrainRecv(s))
        /\ WF_vars(DrainWrite(s))

FairSpec == Init /\ [][Next]_vars /\ Fairness

(***************************************************************************)
(* The relays from their start: the first datagrams a listener receives    *)
(* carry different numbers.                                                *)
(***************************************************************************)
OrderInit ==
    /\ \E r \in {"local", "remote", "socks"} : RelayInit(r)
    /\ seq = 0
    /\ FrameIdle

OrderSpec == OrderInit /\ [][Next]_vars

(***************************************************************************)
(* One reply through the framing of both return-path loops: the server's   *)
(* timedCopy in role remoteServer prepends the source address, the         *)
(* client's timedCopy in role relayClient strips it.                       *)
(***************************************************************************)
Src6 == [atyp |-> AtypIPv6,
         host |-> <<32, 1, 13, 184, 0, 0, 0, 0, 0, 0, 0, 0, 0, 0, 0, 1>>,
         port |-> <<35, 40>>]
\* an IPv6 source with a zone, "fe80::1%eth0": net.ParseIP rejects it and
\* ParseAddr encodes the host as a domain name
SrcZone == [atyp |-> AtypDomainName,
            host |-> <<102, 101, 56, 48, 58, 58, 49, 37, 101, 116, 104, 48>>,
            port |-> <<35, 40>>]
SrcAddrs == {Src4, Src6, SrcZone}

\* the largest n src.ReadFrom(buf) can return for a reply from a: an IP
\* datagram carries at most udpBufSize - 1 bytes (a 16-bit length), of which
\* 8 are the UDP header and, over IPv4, 20 the IP header
MaxRead(a) ==
    IF a.atyp = AtypIPv4 THEN (BufSize - 1) - 20 - 8 ELSE (BufSize - 1) - 8

\* a byte no payload of the model holds: what a buffer holds beyond n
Stale == 255

\* a buffer that holds the n payload bytes base+1 .. base+n
ReadInto(n, base) ==
    [i \in 1..BufSize |-> IF i <= n THEN base + i ELSE Stale]

FrameInit ==
    /\ RelayInit("remote")
    /\ seq = MaxSeq
    /\ fpc = "read"
    /\ faddr \in SrcAddrs
    /\ fn \in 0..MaxRead(faddr)
    /\ \E base \in {100, 200} : fbuf = ReadInto(fn, base)
    /\ fout = << >>
    /\ fuser = << >>

\* lines 303-308 on the server: role remoteServer
FrameServerToClient ==
    /\ fpc = "read"
    /\ LET fr == timedCopyFrame(remoteServer, fbuf, fn, faddr)
       IN  /\ fpc' = IF fr.panic THEN "panic" ELSE "sent"
           /\ fout' = fr.out
    /\ UNCHANGED <<fn, fbuf, faddr, fuser>>
    /\ UNCHANGED relayVars

\* lines 298 and 309-311 on the client: the datagram is read into the
\* client's buf (at most BufSize bytes of it), role relayClient
FrameClientToUser ==
    /\ fpc = "sent"
    /\ LET n == Min(Len(fout), BufSize)
           buf == [i \in 1..BufSize |-> IF i <= n THEN fout[i] ELSE Stale]
           fr == timedCopyFrame(relayClient, buf, n, faddr)
       IN  /\ fuser' = fr.out
           /\ fpc' = "delivered"
    /\ UNCHANGED <<fn, fbuf, faddr, fout>>
    /\ UNCHANGED relayVars

FrameNext == FrameServerToClient \/ FrameClientToUser

FrameSpec == FrameInit /\ [][FrameNext]_vars

\* C10: whenever the server's loop has framed a reply, no panic occurred and
\* the datagram it wrote is the encoded source address followed by the n
\* payload bytes unchanged, of length len(encode(S)) + n.
C10_PrefixedReplyIntact ==
    fpc # "read" =>
        /\ fpc # "panic"
        /\ fout = ParseAddr(faddr) \o SubSeq(fbuf, 1, fn)
        /\ Len(fout) = Len(ParseAddr(faddr)) + fn

\* the reply went through both loops: the user got the payload, and the
\* prefix the client stripped stands for the source address
RoundTripped ==
    /\ fuser = SubSeq(fbuf, 1, fn)
    /\ AddrOf(SplitAddr(fout)) = faddr

\* C11 (as claimed): for every source address A and payload P, prepending
\* encode(A) on the server and stripping the leading prefix on the client
\* delivers exactly P, and the stripped prefix decodes to A; no pair (A, P)
\* ends anywhere else.
C11_FramingRoundTrip ==
    fpc \in {"panic", "delivered"} => (fpc = "delivered" /\ RoundTripped)

\* C11 (within capacity): every reply that the server's loop did frame makes
\* the round trip.
C11_RoundTripWithinCapacity ==
    fpc = "delivered" => RoundTripped

(***************************************************************************)
(* Properties of the relays.                                               *)
(***************************************************************************)
\* the sessions ever created for peer k, and those already removed from the
\* table by their return-path goroutine
CreatedFor(k) == {s \in Sids : speer[s] = k}
Removed(s) ==
    IF Queued THEN rpc[s] = "done" ELSE rpc[s] \in {"close", "done"}
RemovedFor(k) == {s \in CreatedFor(k) : Removed(s)}

\* C1 (state part): in udpLocal and udpRemote, for every peer k the sessions
\* created for k exceed the sessions removed for k by at most one, and the
\* one session not yet removed is the one the table holds under k.
C1_AtMostOneLive ==
    Queued =>
        \A k \in Peers :
            /\ Cardinality(CreatedFor(k)) - Cardinality(RemovedFor(k)) \in {0, 1}
            /\ \A s \in CreatedFor(k) \ RemovedFor(k) : m[k] = s

\* C1 (step part): a session comes into being only in a step that found no
\* table entry for its peer, and that same step inserts it.
C1_CreatedOnMissOnly ==
    Queued =>
        \A s \in Sids :
            (speer[s] = Nil /\ speer'[s] # Nil) =>
                /\ m[speer'[s]] = Nil
                /\ m'[speer'[s]] = s
                /\ lpc = "get"

\* C1: in the queue-based relays at most one session per peer key is live
\* in the table at any time: sessions are created only inside the critical
\* section whose lookup returned nil and are inserted in that same critical
\* section, so created minus removed is always 0 or 1.
C1_SingleSessionPerPeer == [](C1_AtMostOneLive) /\ [][C1_CreatedOnMissOnly]_vars

\* C1 witness: a peer whose first session was removed and who now has a
\* second session in the table.
C1_Witness ==
    /\ Queued
    /\ \E k \in Peers, s1 \in Sids, s2 \in Sids :
          /\ s1 # s2 /\ speer[s1] = k /\ speer[s2] = k
          /\ rpc[s1] = "done" /\ m[k] = s2

\* C2 (as claimed): the listener's send after the unlock never hits an inbox
\* the return-path goroutine has closed (no send-on-closed-channel panic),
\* and the table never holds a session whose inbox is closed.
C2_LateSendOnlyDrops ==
    Queued =>
        /\ panic # "send on closed channel"
        /\ \A k \in Peers : m[k] # Nil => chClosed[m[k]] = 0

\* C3 (as claimed): no session is still waiting in its return-path read once
\* more than the idle timeout has passed without inbound return traffic,
\* whatever the peer sent in the meantime.
C3_ExpiresDespiteOutbound ==
    \A s \in Sids : rpc[s] = "read" => idleIn[s] <= Timeout

\* C3 (amended, expiry): a pending return-path read never outlives the idle
\* timeout counted from the last datagram in either direction; in
\* udpSocksLocal, where nothing but timedCopy arms the deadline, it never
\* outlives the timeout counted from the last inbound datagram.
C3_ExpiryBound ==
    \A s \in Sids :
        rpc[s] = "read" =>
            /\ idleAny[s] <= Timeout
            /\ (relay = "socks" => idleIn[s] <= Timeout)

\* C3 (amended, teardown): a return-path goroutine that has finished has
\* closed the forwarding socket and its session is out of the table.
C3_TornDown ==
    \A s \in Sids :
        rpc[s] = "done" => pcClosed[s] >= 1 /\ m[speer[s]] # s

\* the listener takes up a datagram of peer k
Accepts(k) == lk = Nil /\ lk' = k

\* the outcome of a creation attempt for peer k: a session with a socket
\* never used before, in the table, or a failure that leaves no entry
CreationAttempted(k) ==
    \/ /\ ev'.op = "create" /\ ev'.peer = k
       /\ m'[k] # Nil /\ speer[m'[k]] = Nil /\ speer'[m'[k]] = k
       /\ pcClosed'[m'[k]] = 0 /\ rpc'[m'[k]] = "read"
    \/ /\ ev'.op = "createfail" /\ ev'.peer = k
       /\ m'[k] = Nil

\* C3 (amended, re-creation): a datagram of a peer whose session has been
\* removed finds no table entry and leads to a creation attempt.
C3_FreshAfterRemoval ==
    \A k \in Peers :
        /\ (Queued /\ Accepts(k) /\ m[k] = Nil /\ RemovedFor(k) # {})
               => CreationAttempted(k)
        /\ (~Queued /\ Accepts(k) /\ m[k] = Nil /\ RemovedFor(k) # {})
               => lpc' = "create"
        /\ (~Queued /\ lpc = "create" /\ lk = k /\ lpc' # "create")
               => CreationAttempted(k)

\* C3 (amended): a session without inbound return traffic for longer than
\* the idle timeout expires regardless of outbound datagrams in
\* udpSocksLocal, and in udpLocal and udpRemote provided the drain loop also
\* forwards no outbound datagram for that long (each forwarded datagram
\* re-arms the read deadline); the expired session's goroutine closes the
\* socket and removes the entry, and the next datagram of the peer finds no
\* entry and attempts to create a fresh session.
C3_IdleExpiry ==
    [](C3_ExpiryBound /\ C3_TornDown) /\ [][C3_FreshAfterRemoval]_vars

\* C3 witness: a session that expired by timeout has just been removed from
\* the table, its socket closed.
C3_Witness ==
    /\ ev.op = "remove-timeout"
    /\ m[ev.peer] = Nil
    /\ \E s \in Sids : speer[s] = ev.peer /\ rpc[s] = "done" /\ pcClosed[s] = 1

\* C4: no forwarding socket and no inbox is closed twice; in udpSocksLocal
\* each Del hands a socket to one caller only (its own session's), and a
\* second Del for the same key returns nil and removes nothing.
C4_TeardownOnce ==
    /\ \A s \in Sids : pcClosed[s] <= 1 /\ chClosed[s] <= 1
    /\ panic # "close of closed channel"
    /\ \A s \in Sids : rdel[s] \in {Nil, s}
    /\ \A s \in Sids : (rpc[s] = "done" /\ ~Queued) => rdel[s] = s
    /\ \A k \in Peers :
          LET first == natmapDel(m, k)
              second == natmapDel(first.m, k)
          IN  second.pc = Nil /\ second.m = first.m

\* C4 witness: two sessions of one peer, both torn down, each socket closed
\* exactly once.
C4_Witness ==
    \E s1 \in Sids, s2 \in Sids :
        /\ s1 # s2 /\ speer[s1] # Nil /\ speer[s1] = speer[s2]
        /\ rpc[s1] = "done" /\ rpc[s2] = "done"
        /\ pcClosed[s1] = 1 /\ pcClosed[s2] = 1

\* the listener stands at its select with a live session whose inbox is full
FullInbox ==
    /\ Queued /\ lpc = "send" /\ lch # Nil
    /\ chClosed[lch] = 0 /\ Len(chq[lch]) >= ChanCap

\* C5 (state part): no inbox holds more than one datagram, and the listener
\* at its select can always take a step.
C5_InboxBound ==
    /\ \A s \in Sids : Len(chq[s]) <= 1
    /\ (Queued /\ lpc = "send" /\ panic = NoPanic) => ENABLED ListenerSend

\* C5 (step part): the select on a full inbox keeps the pending datagram,
\* drops the new one and puts its buffer into the pool once.
C5_DropOnFull ==
    (FullInbox /\ lpc' # "send") =>
        /\ chq' = chq
        /\ bufPool[lbuf] = 0
        /\ bufPool' = [bufPool EXCEPT ![lbuf] = 1]
        /\ lpc' = "get"
        /\ panic' = NoPanic

ListenerPanicked ==
    \/ panic = "send on closed channel"
    \/ panic = "slice bounds out of range" /\ relay = "socks" /\ lpc = "write"

\* a step of the listener loop, handling the datagram of peer k
ListenerStep(k) ==
    /\ <<lpc, lk, lch, ldata, lbuf>> # <<lpc', lk', lch', ldata', lbuf'>>
    /\ k = IF lk # Nil THEN lk ELSE lk'

\* C6 (as claimed): whatever happens while one peer's datagram is handled,
\* the listener loop is never stopped and gets back to its read, and the
\* handling leaves the table entries of all other peers unchanged.
C6_ListenerContained ==
    /\ [](~ListenerPanicked)
    /\ [][\A k \in Peers : ListenerStep(k) =>
              \A p \in Peers \ {k} : m'[p] = m[p]]_vars

\* the listener's step through the critical section for peer k ends in a
\* failed net.ListenPacket
CreateFailStep(k) ==
    /\ Queued /\ lpc = "get" /\ lpc' = "send" /\ lk' = k
    /\ m[k] = Nil /\ ev'.op = "createfail"

\* the frame of a failed creation: no entry, no session, no goroutine
NothingCreated ==
    /\ m' = m /\ nextSid' = nextSid /\ speer' = speer
    /\ dpc' = dpc /\ rpc' = rpc /\ chq' = chq

\* C7 (step property): a failed socket creation for peer k leaves no table
\* entry and spawns nothing; the select that follows drops the datagram and
\* puts its buffer back once; and every datagram of a peer without an entry
\* leads to a creation attempt.  In udpSocksLocal the failure leaves the
\* table and the sessions as they were and the loop goes back to its read.
C7_FailureLeavesNothing ==
    /\ \A k \in Peers :
          CreateFailStep(k) => NothingCreated /\ m'[k] = Nil /\ lch' = Nil
    /\ (Queued /\ lpc = "send" /\ lch = Nil /\ lpc' # "send") =>
          /\ ev'.op = "drop-nil" /\ lpc' = "get"
          /\ bufPool[lbuf] = 0 /\ bufPool' = [bufPool EXCEPT ![lbuf] = 1]
          /\ NothingCreated
    /\ \A k \in Peers :
          (Queued /\ Accepts(k) /\ m[k] = Nil) => CreationAttempted(k)
    /\ (~Queued /\ lpc = "create" /\ ev'.op = "createfail") =>
          NothingCreated /\ m'[lk] = Nil /\ lpc' = "read"
    /\ \A k \in Peers :
          (~Queued /\ Accepts(k) /\ m[k] = Nil) => lpc' = "create"

\* C7: when opening the forwarding socket fails on a peer's first datagram,
\* the table has no entry for the peer afterwards, no goroutine was spawned,
\* the datagram is dropped with its buffer released, and a later datagram of
\* the peer attempts the creation again.
C7_FailedCreation == [][C7_FailureLeavesNothing]_vars

\* C7 witness: the datagram of a peer whose socket could not be opened has
\* just been dropped; the peer has no entry and no session.
C7_Witness ==
    /\ ev.op = "drop-nil" /\ lpc = "get"
    /\ m[ev.peer] = Nil /\ CreatedFor(ev.peer) = {}
    /\ \E b \in Bufs : bufPool[b] = 1

\* every holder of a reference to a pooled buffer: the listener, the slots
\* of the inboxes, the drain loops
Holders ==
    {<<"listener", 0, 0>> : x \in (IF lbuf # Nil THEN {1} ELSE {})}
    \cup UNION {{<<"inbox", s, i>> : i \in 1..Len(chq[s])} : s \in Sids}
    \cup {<<"drain", s, 0>> : s \in {t \in Sids : dcur[t].buf # Nil}}

\* C8: no buffer is in the pool twice, no goroutine holds (to read, write,
\* send or hand to a socket) a buffer that is in the pool, and no two
\* holders hold the same buffer: a buffer is released only by its one owner.
C8_BufferOwnership ==
    /\ \A b \in Bufs : bufPool[b] <= 1
    /\ \A b \in Referenced : bufPool[b] = 0
    /\ Cardinality(Holders) = Cardinality(Referenced)

\* C8 witness: a buffer went from the listener through an inbox to a drain
\* loop, which forwarded it and put it back, while the listener holds
\* another buffer.
C8_Witness ==
    /\ ev.op = "forward" /\ Queued
    /\ lbuf # Nil
    /\ \E b \in Bufs : b # lbuf /\ bufPool[b] = 1

\* the payloads of the datagrams of D that carry a valid address prefix
PayloadsOf(D) ==
    {SubSeq(d, Len(SplitAddr(d)) + 1, Len(d)) : d \in {x \in D : SplitAddr(x) # << >>}}

\* C9 (as claimed): where a prefix is required, only datagrams with a valid
\* prefix are written to the next hop (by udpRemote's drain loop, and by
\* timedCopy in role relayClient), and discarding one changes no table entry.
C9_MalformedDiscarded ==
    /\ []((relay = "remote" /\ ev.op = "forward")
              => ev.data \in PayloadsOf(UNION {ListenData("remote", p) : p \in 1..MaxSeq}))
    /\ []((RoleOf(relay) = relayClient /\ ev.op = "reply")
              => ev.data \in PayloadsOf(UNION {ReturnData(relay, s) : s \in Sids}))
    /\ [][ev'.op = "discard-split" => m' = m]_vars

\* C12 (read failure): the buffer a listener iteration took before a failed
\* read on the listening socket is back in the pool when the iteration ends.
C12_ReadErrReturnsBuffer ==
    (Queued /\ ev.op = "readerr") => bufPool[ev.data[1]] >= 1

\* C12 (drop and drain): the listener's drop of a datagram (inbox full, or
\* no session) and the drain loop's pass over a datagram (written or not)
\* each put the buffer into the pool once.
C12_PathsReturnBuffer ==
    /\ (Queued /\ lpc = "send" /\ ev'.op \in {"drop-nil", "drop-full"}) =>
           bufPool'[lbuf] = bufPool[lbuf] + 1
    /\ \A s \in Sids :
           (dpc[s] = "write" /\ dpc'[s] = "recv") =>
               bufPool'[dcur[s].buf] = bufPool[dcur[s].buf] + 1

\* C12 (as claimed): every buffer a listener iteration takes from the pool
\* is returned to it on every path: a failed read, a drop, a pass through
\* the drain loop.
C12_EveryBufferReturned ==
    [](C12_ReadErrReturnsBuffer) /\ [][C12_PathsReturnBuffer]_vars

\* C12 (without the failed read): the drop and drain paths return the buffer.
C12_DropAndDrainReturn == [][C12_PathsReturnBuffer]_vars

\* the return-path goroutine of session s and its drain loop have finished:
\* socket closed, entry removed, inbox closed and drained
TornDown(s) ==
    /\ rpc[s] = "done" /\ dpc[s] = "done"
    /\ pcClosed[s] >= 1 /\ chClosed[s] >= 1
    /\ m[speer[s]] # s /\ chq[s] = << >>

\* C13 (as claimed): in udpLocal and udpRemote, once the return-path loop of
\* a session has ended, the session is eventually torn down completely and
\* its drain goroutine has terminated.
C13_TeardownCompletes ==
    \A s \in Sids : (Queued /\ rpc[s] = "close") ~> TornDown(s)

\* C13 (as long as the process lives): the same, unless a panic has ended
\* the process in the meantime.
C13_TeardownUnlessCrashed ==
    \A s \in Sids :
        (Queued /\ rpc[s] = "close") ~> (TornDown(s) \/ panic # NoPanic)

\* C13 (pending datagrams): a closed inbox holds at most one datagram and
\* takes no more.
C13_ClosedInboxShrinks ==
    [][\A s \in Sids :
          chClosed[s] > 0 =>
              Len(chq[s]) <= 1 /\ Len(chq'[s]) <= Len(chq[s])]_vars

\* what remains of d once its leading address prefix (if any) is cut off
Stripped(d) == SubSeq(d, Len(SplitAddr(d)) + 1, Len(d))

\* the replies the forwarding socket of some session of udpLocal can read
LocalReplies == UNION {ReturnData("local", s) : s \in Sids}

Num(d) == d[Len(d)]

\* the datagrams of session s on their way to the next hop, oldest first:
\* the one its drain loop holds, the ones in its inbox, the one the listener
\* is about to send to it
Pipeline(s) ==
    (IF dcur[s].buf # Nil THEN <<Num(dcur[s].data)>> ELSE << >>)
    \o [i \in 1..Len(chq[s]) |-> Num(chq[s][i].data)]
    \o (IF Queued /\ lpc = "send" /\ lch = s THEN <<Num(ldata)>> ELSE << >>)

\* datagram b was received after datagram a (numbers that have reached
\* MaxSeq no longer tell)
After(a, b) == a < b \/ (a = MaxSeq /\ b = MaxSeq)

\* C15 (state part): on the way to the next hop the datagrams of a session
\* stand in the order in which the listener received them, and none is
\* there twice.
C15_PipelineOrdered ==
    \A s \in Sids :
        LET q == Pipeline(s)
        IN  /\ \A i \in 1..Len(q) : q[i] <= seq
            /\ \A i \in 1..(Len(q) - 1) : After(q[i], q[i + 1])

\* C15 (step part): the drain loop writes the datagram it took from the
\* head of the inbox and nothing else, lets go of it, and every datagram
\* still on the way or yet to be received was received after the one
\* written.
C15_WritesOldest ==
    \A s \in Sids :
        (dpc[s] = "write" /\ dpc'[s] = "recv") =>
            /\ dcur'[s] = NoItem
            /\ ev'.op = "forward" => ev'.data = DrainPayload(relay, dcur[s].data)
            /\ Num(dcur[s].data) <= seq
            /\ \A i \in 1..Len(Pipeline(s)') :
                   After(Num(dcur[s].data), Pipeline(s)'[i])

\* C15: for each session of udpLocal and udpRemote the datagrams the drain
\* loop writes to the next hop are a subsequence of the datagrams the
\* listener received from the peer: no datagram is written twice, and none
\* is written after one that was received later.
C15_WrittenInOrder == [](C15_PipelineOrdered) /\ [][C15_WritesOldest]_vars

\* C15 witness: a drain loop has just written datagram 1 of a peer whose
\* inbox already holds the peer's datagram 3, datagram 2 having been dropped
\* or sent by another peer.
C15_Witness ==
    /\ ev.op = "forward" /\ Num(ev.data) = 1
    /\ \E s \in Sids :
          /\ speer[s] = ev.peer /\ dpc[s] = "recv"
          /\ Len(chq[s]) = 1 /\ Num(chq[s][1].data) = 3

\* the drain loop of session s of udpRemote ends its pass over a datagram
\* without having written it
DrainFailed(s) ==
    /\ relay = "remote" /\ dpc[s] = "write" /\ dpc'[s] = "recv"
    /\ ev'.op \in {"discard-split", "discard-resolve", "forward-fail"}

\* C16 (step property): a pass of udpRemote's drain loop over a datagram
\* without a valid prefix is a failed split; a failed split or resolve or
\* write puts the buffer into the pool once, leaves the table, the inboxes,
\* the sockets and the return-path goroutines as they are, and leaves the
\* drain loop at its next receive; a failed split or resolve leaves the read
\* deadline as it is.
C16_FailureEndsOneDatagram ==
    \A s \in Sids :
        /\ (relay = "remote" /\ dpc[s] = "write" /\ dpc'[s] # "write"
                /\ SplitAddr(dcur[s].data) = << >>)
               => ev'.op = "discard-split"
        /\ DrainFailed(s) =>
               /\ bufPool'[dcur[s].buf] = bufPool[dcur[s].buf] + 1
               /\ m' = m /\ speer' = speer /\ chq' = chq
               /\ chClosed' = chClosed /\ pcClosed' = pcClosed /\ rpc' = rpc
               /\ panic' = NoPanic
               /\ dcur'[s] = NoItem
               /\ (chq[s] # << >> => ENABLED DrainRecv(s))'
               /\ ev'.op \in {"discard-split", "discard-resolve"} =>
                      remaining' = remaining /\ idleAny' = idleAny

\* C16: in udpRemote's drain loop a datagram whose prefix cannot be split
\* or resolved, or whose write fails, ends the processing of that datagram
\* only: buffer released, deadline not extended after a failed split or
\* resolve, session untouched, loop ready for the next datagram.
C16_DrainFailureContained == [][C16_FailureEndsOneDatagram]_vars

\* C16 witness: udpRemote's drain loop has just discarded a datagram without
\* a valid prefix; the session is still in the table with its socket open
\* and the next datagram waiting in its inbox.
C16_Witness ==
    /\ relay = "remote" /\ ev.op = "discard-split"
    /\ \E s \in Sids :
          /\ m[ev.peer] = s /\ pcClosed[s] = 0 /\ rpc[s] = "read"
          /\ dpc[s] = "recv" /\ Len(chq[s]) = 1
    /\ \E b \in Bufs : bufPool[b] = 1

\* the listener runs its select on the first datagram of the session it has
\* just created
FirstSend ==
    /\ Queued /\ lpc = "send" /\ lnew
    /\ (lpc' # lpc \/ panic' # panic)

\* C17 (as claimed): the select on the first datagram of a newly created
\* session can always run, and it puts the datagram into the inbox: no
\* drop, no panic, whether or not the drain goroutine has started.
C17_FirstDatagramEnqueued ==
    /\ []((Queued /\ lpc = "send" /\ lnew /\ panic = NoPanic)
              => ENABLED ListenerSend)
    /\ [][FirstSend => (ev'.op = "enqueue" /\ panic' = NoPanic)]_vars

\* C17 (drop and block only): the first datagram of a newly created session
\* is never dropped by the select and never blocks the listener.
C17_FirstNeverDropped ==
    /\ []((Queued /\ lpc = "send" /\ lnew /\ panic = NoPanic)
              => ENABLED ListenerSend)
    /\ [][FirstSend => ev'.op \notin {"drop-nil", "drop-full"}]_vars

\* C17 (drain): under fair scheduling a datagram in an inbox is eventually
\* taken by the session's drain loop, unless a panic ends the process.
C17_InboxEventuallyDrained ==
    \A s \in Sids :
        (chq[s] # << >>) ~> (chq[s] = << >> \/ panic # NoPanic)

\* the session on whose forwarding socket the reply behind datagram d was
\* read: the replies of session s carry the payload ReplyPayload(s)
ReadOn(d) == CHOOSE s \in Sids : ReplyPayload(s) = <<d[Len(d)]>>

\* C18 (state part): a reply that has just been written through the
\* listening socket went to the peer for which the session that read it was
\* created.
C18_ReplyToOwnPeer ==
    ev.op = "reply" =>
        /\ \E s \in Sids : ReplyPayload(s) = <<ev.data[Len(ev.data)]>>
        /\ ev.peer = speer[ReadOn(ev.data)]

\* C18 (step part): the peer of a session never changes, and a session is
\* created for the peer whose datagram the listener holds.
C18_PeerFixed ==
    \A s \in Sids :
        /\ speer[s] # Nil => speer'[s] = speer[s]
        /\ (speer[s] = Nil /\ speer'[s] # Nil) => speer'[s] = lk'

\* C18: in all three relays every reply read on the forwarding socket of the
\* session created for peer P is written to P only, also while sessions of
\* several peers are active.
C18_ReturnTrafficIsolated == [](C18_ReplyToOwnPeer) /\ [][C18_PeerFixed]_vars

\* C18 witness: the sessions of two different peers are both reading, the
\* listener holds a datagram of the first peer, and a reply read on the
\* second peer's socket has just been delivered to the second peer.
C18_Witness ==
    /\ ev.op = "reply"
    /\ \E s1 \in Sids, s2 \in Sids :
          /\ speer[s1] # Nil /\ speer[s2] # Nil /\ speer[s1] # speer[s2]
          /\ rpc[s1] = "read" /\ rpc[s2] = "read"
          /\ lk = speer[s1]
          /\ ReadOn(ev.data) = s2 /\ ev.peer = speer[s2]

\* C19 (as claimed): in all three relays the forwarding socket of a session
\* that is in the table has not been closed, and the session a datagram was
\* accepted into has its socket open.
C19_EntryHasOpenSocket ==
    /\ \A k \in Peers : m[k] # Nil => pcClosed[m[k]] = 0
    /\ (lpc \in {"send", "write"} /\ lch # Nil) => pcClosed[lch] = 0

\* C19 (amended, state part): in udpSocksLocal a session in the table has
\* its socket open; in udpLocal and udpRemote a session in the table has its
\* socket closed only while its return-path goroutine stands between
\* pc.Close() and the critical section that removes the entry.
C19_ClosedOnlyBeforeRemoval ==
    \A k \in Peers :
        m[k] # Nil =>
            /\ speer[m[k]] = k
            /\ ~Queued => pcClosed[m[k]] = 0
            /\ (Queued /\ pcClosed[m[k]] > 0) => rpc[m[k]] = "lock"

\* C19 (amended, step part): a datagram handed to a session whose socket is
\* closed is not written: the write fails and the datagram is lost.
C19_ClosedSocketWritesNothing ==
    /\ \A s \in Sids :
          (dpc[s] = "write" /\ dpc'[s] = "recv" /\ pcClosed[s] > 0) =>
              ev'.op # "forward"
    /\ (~Queued /\ lpc = "write" /\ lpc' = "read" /\ pcClosed[lch] > 0) =>
          ev'.op = "forward-fail"

\* C19 (amended): the table entry is removed before the socket is closed in
\* udpSocksLocal only; udpLocal and udpRemote close the socket first, so an
\* entry with a closed socket exists until the goroutine that closed it has
\* removed it, and a datagram accepted into such a session is lost.
C19_EntryAndSocket ==
    [](C19_ClosedOnlyBeforeRemoval) /\ [][C19_ClosedSocketWritesNothing]_vars

\* C19 witness: the listener of a queue-based relay has accepted a datagram
\* into a session that is in the table although its socket is closed.
C19_Witness ==
    /\ Queued /\ lpc = "send" /\ lch # Nil
    /\ m[lk] = lch /\ pcClosed[lch] = 1 /\ rpc[lch] = "lock"
    /\ panic = NoPanic

\* the forwarding sockets opened for peer k and not yet closed
OpenFor(k) == {s \in Sids : speer[s] = k /\ pcClosed[s] = 0}

\* C20 (as claimed): in all three relays at most one forwarding socket that
\* was opened and is not yet closed exists per peer.
C20_OneOpenSocketPerPeer ==
    \A k \in Peers : Cardinality(OpenFor(k)) <= 1

\* C20 (amended, state part): in udpLocal and udpRemote a peer has at most
\* one open forwarding socket; in udpSocksLocal a peer has at most one open
\* socket whose goroutine has not yet taken it out of the table, and every
\* other open socket of the peer is out of the table, in the hands of the
\* goroutine that is about to close it.
C20_OpenSockets ==
    \A k \in Peers :
        /\ Queued => Cardinality(OpenFor(k)) <= 1
        /\ ~Queued =>
              /\ Cardinality({s \in OpenFor(k) : rpc[s] # "close"}) <= 1
              /\ \A s \in OpenFor(k) :
                     rpc[s] = "close" => (rdel[s] = s /\ m[k] # s)

\* C20 (amended, step part): a session is created for a peer only when the
\* table has no entry for the peer; the sockets of the peer's earlier
\* sessions are then closed (udpLocal, udpRemote) or out of the table
\* (udpSocksLocal).
C20_ReplacementAfterRemoval ==
    \A s \in Sids :
        (speer[s] = Nil /\ speer'[s] # Nil) =>
            /\ m[speer'[s]] = Nil /\ m'[speer'[s]] = s
            /\ \A t \in Sids \ {s} :
                   speer[t] = speer'[s] =>
                       IF Queued THEN pcClosed[t] >= 1
                       ELSE rpc[t] \in {"close", "done"}

\* C20 (amended): one open forwarding socket per peer in udpLocal and
\* udpRemote; in udpSocksLocal one per peer in the table, and a replacement
\* may be created while the removed session's socket is still being closed.
C20_SocketsPerPeer ==
    [](C20_OpenSockets) /\ [][C20_ReplacementAfterRemoval]_vars

\* C20 witness: in udpSocksLocal the replacement session of a peer is in the
\* table and reading while the socket of the peer's removed session is still
\* open.
C20_Witness ==
    /\ relay = "socks"
    /\ \E s1 \in Sids, s2 \in Sids :
          /\ s1 # s2 /\ speer[s1] # Nil /\ speer[s1] = speer[s2]
          /\ rpc[s1] = "close" /\ pcClosed[s1] = 0
          /\ m[speer[s2]] = s2 /\ rpc[s2] = "read" /\ pcClosed[s2] = 0
=============================================================================
